---- MODULE Spec2Model ----
(***************************************************************************)
(* Order approval workflow of the Telegram bot (src/bot/main.py) and the   *)
(* order API it talks to (src/backend/main.py).                            *)
(*                                                                         *)
(* The bot runs two telegram Applications in one asyncio loop: the user    *)
(* session (app1) and the admin session (app2).  Each Application handles  *)
(* its updates one at a time, so at most one user handler and at most one  *)
(* admin handler are in progress; the two interleave at every await.       *)
(* A handler is modelled as a sequence of steps, one per awaited call that *)
(* is followed by a read or a write of the shared dictionaries.            *)
(***************************************************************************)
EXTENDS Integers, Sequences, FiniteSets, TLC

\* ------------------------------------------------------------------ bounds
MaxOrders == 2        \* create-order calls that reach the store
MaxDecisions == 2     \* admin button presses handled

OrderIds == 1..MaxOrders
\* Telegram ids of the users whose events are modelled; the handlers touch
\* only the entries of the user an event names
Users == {1}

\* ------------------------------------------------------- program constants
Plans == {"4", "7", "12", "16"}
\* the plan buttons the modelled users press
PlanInputs == {"4", "12"}
DEFAULT_DOWNLOAD_LINK == "#"
ADMIN_TOKEN == "nhoyhub_admin_2025"
\* the deployment sets the bot's token to the backend's ("Must match token")
FASTAPI_ADMIN_TOKEN == ADMIN_TOKEN
UdidMinLen == 20
UdidMaxLen == 50

\* ------------------------------------------------------------ text inputs
\* A text is a sequence of one-character strings.
UdidB == <<" ","0","0","0","0","8","0","2","0","-","0","0","1","C","2","D","3","E","4","F","5","A","6","B"," ">>
SpecUdid == <<"A","B","1","2","C","D","3","4","E","F","5","6","G","H","7","8","I","J","0","0">>
ShortText == <<"a","b","c","d">>
StartText == <<"r","e","S","T","A","R","T">>
Texts == {UdidB, SpecUdid, ShortText, StartText}

valid_chars ==
    {"0","1","2","3","4","5","6","7","8","9",
     "a","b","c","d","e","f","A","B","C","D","E","F","-"}

\* str.lower() on the characters the inputs use
lower(c) ==
    CASE c = "A" -> "a" [] c = "B" -> "b" [] c = "C" -> "c" [] c = "D" -> "d"
      [] c = "E" -> "e" [] c = "F" -> "f" [] c = "G" -> "g" [] c = "H" -> "h"
      [] c = "I" -> "i" [] c = "J" -> "j" [] c = "R" -> "r" [] c = "S" -> "s"
      [] c = "T" -> "t" [] OTHER -> c

text_lower(s) == [i \in 1..Len(s) |-> lower(s[i])]

\* str.strip(): drop leading and trailing blanks
RECURSIVE lstrip(_)
lstrip(s) == IF s # <<>> /\ Head(s) = " " THEN lstrip(Tail(s)) ELSE s
RECURSIVE rstrip(_)
rstrip(s) ==
    IF s # <<>> /\ s[Len(s)] = " " THEN rstrip(SubSeq(s, 1, Len(s) - 1)) ELSE s
strip(s) == rstrip(lstrip(s))

\* sub in s
contains(s, sub) ==
    \E i \in 1..(Len(s) - Len(sub) + 1) : SubSeq(s, i, i + Len(sub) - 1) = sub

\* the check its docstring describes: "alphanumeric characters and hyphens"
validate_udid_alnum(udid) ==
    /\ udid # <<>>
    /\ UdidMinLen <= Len(udid) /\ Len(udid) <= UdidMaxLen
    /\ \A i \in 1..Len(udid) :
          udid[i] \in valid_chars \cup {"g", "G", "z", "Z"}

validate_udid(udid) ==
    IF udid = <<>> THEN FALSE
    ELSE IF ~(UdidMinLen <= Len(udid) /\ Len(udid) <= UdidMaxLen) THEN FALSE
    ELSE IF ~(\A i \in 1..Len(udid) : udid[i] \in valid_chars) THEN FALSE
    ELSE TRUE

\* --------------------------------------------------------- dict operations
dict_set(d, k, v) == [x \in DOMAIN d \cup {k} |-> IF x = k THEN v ELSE d[x]]
dict_del(d, k) == [x \in DOMAIN d \ {k} |-> d[x]]
EmptyDict == [x \in {} |-> 0]

\* ================================================================ backend
\* The order API of src/backend/main.py: the orders relation and its routes.
VARIABLES orders, next_id

\* starlette matches a path parameter against one path segment
Route(method, path) ==
    IF method = "POST" /\ path = <<"orders">> THEN "create_order"
    ELSE IF method = "GET" /\ path = <<"orders">> THEN "list_orders"
    ELSE IF Len(path) = 2 /\ path[1] = "orders" /\ method = "GET" THEN "get_order"
    ELSE IF Len(path) = 2 /\ path[1] = "orders" /\ method = "PUT" THEN "update_order"
    ELSE IF Len(path) = 2 /\ path[1] = "orders" /\ method = "DELETE" THEN "delete_order"
    ELSE "not_found"

require_admin_anyone(token) == TRUE

require_admin(token) == token = ADMIN_TOKEN

\* POST /orders: the row inserted for (name, udid); price is the $<digits>
\* group of the name the bot builds, i.e. the plan
\* the path an uploaded image is stored under: /uploads/ and a file name
\* made of the upload time, which no operation reads, and of the name
ImageUrl(name) == <<"/uploads/", name>>

OrderRow(user, payment_option, udid) ==
    [name |-> <<user, payment_option>>, udid |-> udid,
     image_url |-> ImageUrl(<<user, payment_option>>), status |-> "pending",
     download_link |-> DEFAULT_DOWNLOAD_LINK, price |-> payment_option]

\* an insert that takes the lowest unused id instead of the sequence's
create_order_lowest(rows, id, user, payment_option, udid) ==
    dict_set(rows, CHOOSE i \in 1..id : i \notin DOMAIN rows /\ \A j \in 1..(i - 1) : j \in DOMAIN rows,
             OrderRow(user, payment_option, udid))

create_order(rows, id, user, payment_option, udid) ==
    dict_set(rows, id, OrderRow(user, payment_option, udid))

\* PUT /orders/{order_id} with the form fields present in form
update_order(rows, order_id, form) ==
    IF order_id \notin DOMAIN rows THEN [code |-> 404, rows |-> rows]
    ELSE IF DOMAIN form = {} THEN [code |-> 500, rows |-> rows]
    ELSE [code |-> 200,
          rows |-> dict_set(rows, order_id,
                     [k \in DOMAIN rows[order_id] |->
                        IF k \in DOMAIN form
                        THEN (IF k = "download_link" /\ form[k] = ""
                              THEN "#" ELSE form[k])
                        ELSE rows[order_id][k]])]

\* the backend's answer to a PUT request
BackendPut(rows, path, token, form) ==
    IF Route("PUT", path) = "update_order"
    THEN IF ~require_admin(token) THEN [code |-> 401, rows |-> rows]
         ELSE update_order(rows, path[2], form)
    ELSE [code |-> 404, rows |-> rows]

\* An Authorization header is <<>> when the request has none, else
\* <<scheme, credentials>>.  oauth2_scheme hands the credentials of a Bearer
\* header to require_admin and answers 401 itself without one; "" stands for
\* that case, which require_admin refuses as well.
oauth2_scheme(header) ==
    IF header # <<>> /\ header[1] = "Bearer" THEN header[2] ELSE ""

is_admin_request_always(header) == TRUE

is_admin_request(header) == header = <<"Bearer", ADMIN_TOKEN>>

DEFAULT_CART_IMAGE == "https://i.pinimg.com/736x/67/74/40/67744063f3ce36103729fb5ed2edc98e.jpg"
DEFAULT_ESIGN_IMAGE == "https://via.placeholder.com/400x200/007bff/ffffff?text=Esign+Image"

\* a config key is a tuple: <<"public_image_url">>, <<"esign_image_", n>>
get_config_value(cfg, key) ==
    IF key \in DOMAIN cfg THEN cfg[key]
    ELSE IF key = <<"public_image_url">> THEN DEFAULT_CART_IMAGE
    ELSE IF key[1] = "esign_image_" THEN DEFAULT_ESIGN_IMAGE
    ELSE "#"

\* POST /orders, which has no require_admin dependency: 400 for an empty
\* image, else the row is inserted under the next id of the sequence
post_order(rows, id, user, payment_option, udid, content) ==
    IF content = <<>> THEN [code |-> 400, rows |-> rows, id |-> 0]
    ELSE [code |-> 200, rows |-> create_order(rows, id, user, payment_option, udid),
          id |-> id]

\* GET /orders/{order_id}
get_order(rows, order_id) ==
    IF order_id \notin DOMAIN rows THEN [code |-> 404] ELSE [code |-> 200]

\* DELETE /orders/{order_id}: the DELETE statement runs and the answer is
\* {"deleted": True} whether or not a row had the id
delete_order(rows, order_id) ==
    [code |-> 200,
     rows |-> IF order_id \in DOMAIN rows THEN dict_del(rows, order_id) ELSE rows]

\* the backend's answer to a DELETE request
BackendDelete(rows, header, order_id) ==
    IF ~require_admin(oauth2_scheme(header)) THEN [code |-> 401, rows |-> rows]
    ELSE delete_order(rows, order_id)

\* PUT /config/public with the form field public_image_url
update_config_public(cfg, header, public_image_url) ==
    IF ~require_admin(oauth2_scheme(header)) THEN [code |-> 401, cfg |-> cfg]
    ELSE IF public_image_url = "" THEN [code |-> 400, cfg |-> cfg]
    ELSE [code |-> 200, cfg |-> dict_set(cfg, <<"public_image_url">>, public_image_url)]

\* the same without the range check of line 241
update_config_esign_image_any(cfg, header, image_number, image_url) ==
    IF ~require_admin(oauth2_scheme(header)) THEN [code |-> 401, cfg |-> cfg]
    ELSE IF image_url = "" THEN [code |-> 400, cfg |-> cfg]
    ELSE [code |-> 200,
          cfg |-> dict_set(cfg, <<"esign_image_", image_number>>, image_url)]

\* PUT /config/esign_image/{image_number} with the form field image_url
update_config_esign_image(cfg, header, image_number, image_url) ==
    IF ~require_admin(oauth2_scheme(header)) THEN [code |-> 401, cfg |-> cfg]
    ELSE IF image_number < 1 \/ image_number > 5 THEN [code |-> 400, cfg |-> cfg]
    ELSE IF image_url = "" THEN [code |-> 400, cfg |-> cfg]
    ELSE [code |-> 200,
          cfg |-> dict_set(cfg, <<"esign_image_", image_number>>, image_url)]

\* python's min and max
min(a, b) == IF a < b THEN a ELSE b
max(a, b) == IF a > b THEN a ELSE b

\* the ids in ids, ascending
RECURSIVE Ascending(_)
Ascending(ids) ==
    IF ids = {} THEN <<>>
    ELSE LET m == CHOOSE i \in ids : \A j \in ids : i <= j
         IN <<m>> \o Ascending(ids \ {m})

Reversed(q) == [i \in 1..Len(q) |-> q[Len(q) + 1 - i]]

\* the text of the name of an order placed on the order page: the
\* customer's name and the plan, "web ($7 Plan)"
name_text(name) ==
    <<"w", "e", "b", " ", "(", "$">> \o <<name[2]>> \o <<" ", "P", "l", "a", "n", ")">>

\* x ILIKE %q% for a q without wildcard characters
ilike(x, q) == contains(text_lower(x), text_lower(q))

\* a listing that counts the rows of the page instead of the rows found
list_total_of_page(found, ids) == Len(ids)

\* line 340: SELECT COUNT(*) with the WHERE clause of the listing
list_total(found, ids) == Cardinality(found)

\* GET /orders: the page of the rows with the status asked for (every row
\* when status is "") and with q in name or udid (every row when q is
\* empty), ordered by id, and the image each item shows
list_orders(rows, cfg, header, status, q, page, page_size, sort) ==
    LET is_admin == is_admin_request(header)
        p == max(page, 1)
        size == max(min(page_size, 50), 1)
        found == {id \in DOMAIN rows :
                    /\ status = "" \/ rows[id].status = status
                    /\ q = <<>> \/ ilike(name_text(rows[id].name), q)
                                \/ ilike(rows[id].udid, q)}
        ordered == IF sort = "-id" THEN Reversed(Ascending(found))
                   ELSE Ascending(found)
        offset == (p - 1) * size
        ids == SubSeq(ordered, offset + 1, min(offset + size, Len(ordered)))
        public_image_url == get_config_value(cfg, <<"public_image_url">>)
    IN [code |-> 200,
        items |-> [i \in 1..Len(ids) |->
                     [id |-> ids[i],
                      status |-> rows[ids[i]].status,
                      image_url |-> IF ~is_admin THEN public_image_url
                                    ELSE rows[ids[i]].image_url]],
        total |-> list_total(found, ids),
        page |-> p,
        page_size |-> size]

\* ==================================================================== bot
VARIABLES
    user_data,          \* user id -> {'udid', 'payment_option'?}
    pending_approvals,  \* user id -> pending approval
    completed_orders,   \* user id -> completed order
    upc, ureq,          \* user session: position and locals of its handler
    apc, areq,          \* admin session: position and locals of its handler
    alerts,             \* order ids of the approval requests shown to the admin
    followups,          \* user id -> number of sleeping send_alert_after_30s tasks (absent: none)
    decisions,          \* admin button presses handled so far
    processed,          \* order ids whose approval wrote its completed order
    after_reject        \* users whose latest decision is a rejection and who sent no
                        \* /start, UDID text or plan selection since

\* the config relation of the backend, and the last call of a client of the
\* order API other than the bot (the admin panel, the public order page)
\* with the answer it got
VARIABLES config, client

\* a text handed to validate_udid on its own, and the verdict
VARIABLE probe

vars == <<orders, next_id, user_data, pending_approvals, completed_orders,
          upc, ureq, apc, areq, alerts, followups, decisions, processed,
          after_reject, config, client, probe>>

botvars == <<user_data, pending_approvals, completed_orders>>
store == <<orders, next_id>>
ghost == <<processed, after_reject>>
apivars == <<config, client>>

NoUreq == [user_id |-> 0, udid |-> <<>>, payment_option |-> "", order_id |-> 0]
NoInfo == [username |-> 0, udid |-> <<>>, payment_option |-> "", fastapi_order_id |-> 0]
NoAreq == [action |-> "", order_id |-> 0, user_id |-> 0, user_info |-> NoInfo,
           code |-> 0, sent |-> FALSE]

NoCall == [op |-> "none", code |-> 0]
NoProbe == [text |-> <<>>, done |-> FALSE, accepted |-> FALSE]

\* the dictionaries and the orders relation are empty, no handler runs
Fresh ==
    /\ orders = EmptyDict
    /\ next_id = 1
    /\ user_data = EmptyDict
    /\ pending_approvals = EmptyDict
    /\ completed_orders = EmptyDict
    /\ upc = "idle" /\ ureq = NoUreq
    /\ apc = "idle" /\ areq = NoAreq
    /\ alerts = {}
    /\ followups = EmptyDict
    /\ decisions = 0
    /\ processed = {}
    /\ after_reject = {}
    /\ config = EmptyDict

Init ==
    /\ Fresh
    /\ client = NoCall
    /\ probe = NoProbe

\* sleeping send_alert_after_30s tasks of a user
tasks(user_id) == IF user_id \in DOMAIN followups THEN followups[user_id] ELSE 0

\* ---------------------------------------------------------- user session
\* lines 263-264 of start
start_clear_keep(d, user_id) == d

start_clear(d, user_id) == IF user_id \in DOMAIN d THEN dict_del(d, user_id) ELSE d

start(user_id) ==
    /\ upc = "idle"
    /\ user_data' = start_clear(user_data, user_id)
    /\ pending_approvals' = start_clear(pending_approvals, user_id)
    /\ after_reject' = after_reject \ {user_id}
    /\ UNCHANGED <<apivars, probe, store, completed_orders, upc, ureq, apc, areq, alerts,
                   followups, decisions, processed>>

\* a session that starts with the cheapest plan selected
SessionOf_with_plan(udid) == [udid |-> udid, payment_option |-> "4"]

\* handle_udid_input: the session written for an accepted text
SessionOf(udid) == [udid |-> udid]

\* handle_udid_input without the return at line 328
handle_udid_input_no_return(user_id, text) ==
    /\ user_data' = dict_set(user_data, user_id, SessionOf(strip(text)))
    /\ after_reject' = after_reject \ {user_id}
    /\ IF validate_udid(strip(text))
       THEN UNCHANGED <<upc, ureq>>
       ELSE /\ upc' = "reply_invalid"
            /\ ureq' = [NoUreq EXCEPT !.user_id = user_id, !.udid = strip(text)]
    /\ UNCHANGED <<apivars, probe, store, pending_approvals, completed_orders, apc,
                   areq, alerts, followups, decisions, processed>>

\* a check that lets every text pass
is_valid_any == [t \in Texts |-> TRUE]

\* lines 321 and 322 on each text of Texts, computed once
stripped == [t \in Texts |-> strip(t)]
is_valid == [t \in Texts |-> validate_udid(strip(t))]

\* an accepted text is stored before the first await; a refused text is
\* answered with the format error (line 323) and nothing is written
handle_udid_input(user_id, text) ==
    LET udid == stripped[text] IN
    /\ IF is_valid[text]
       THEN /\ user_data' = dict_set(user_data, user_id, SessionOf(udid))
            /\ after_reject' = after_reject \ {user_id}
            /\ UNCHANGED <<upc, ureq>>
       ELSE /\ upc' = "reply_invalid"
            /\ ureq' = [NoUreq EXCEPT !.user_id = user_id, !.udid = udid]
            /\ UNCHANGED <<user_data, after_reject>>
    /\ UNCHANGED <<apivars, probe, store, pending_approvals, completed_orders, apc,
                   areq, alerts, followups, decisions, processed>>

\* line 552 on each text of Texts, computed once
has_start == [t \in Texts |-> contains(text_lower(strip(t)), <<"s","t","a","r","t">>)]

handle_other_messages(user_id, text) ==
    /\ upc = "idle"
    /\ text # <<>>
    /\ IF has_start[text]
       THEN start(user_id)
       ELSE handle_udid_input(user_id, text)

\* line 376 without the return of line 378
has_session_any(user_id) == TRUE

\* line 376: the session the plan is stored in
has_session(user_id) == user_id \in DOMAIN user_data

\* answered: whether query.answer() returned (it raises on a transport
\* error); a user without session is answered with the "Session expired"
\* edit (line 377) and nothing is written
handle_payment_button(user_id, payment_option, answered) ==
    /\ upc = "idle"
    /\ IF ~answered
       THEN UNCHANGED <<user_data, after_reject, upc, ureq>>
       ELSE IF has_session(user_id)
       THEN /\ user_data' = dict_set(user_data, user_id,
                  [udid |-> IF user_id \in DOMAIN user_data
                            THEN user_data[user_id].udid ELSE <<>>,
                   payment_option |-> payment_option])
            /\ after_reject' = after_reject \ {user_id}
            /\ UNCHANGED <<upc, ureq>>
       ELSE /\ upc' = "reply_expired"
            /\ ureq' = [NoUreq EXCEPT !.user_id = user_id,
                                      !.payment_option = payment_option]
            /\ UNCHANGED <<user_data, after_reject>>
    /\ UNCHANGED <<apivars, probe, store, pending_approvals, completed_orders, apc,
                   areq, alerts, followups, decisions, processed>>

\* line 417 without its second test
no_plan_session_only(user_id) == user_id \notin DOMAIN user_data

\* handle_screenshot, lines 417 and 421: the two refusals
no_plan(user_id) ==
    \/ user_id \notin DOMAIN user_data
    \/ "payment_option" \notin DOMAIN user_data[user_id]

already_processing_never(user_id) == FALSE

already_processing(user_id) == user_id \in DOMAIN pending_approvals

\* handle_screenshot up to its first await: the reply of a refusal, or
\* get_file()
ScreenshotStart(user_id) ==
    /\ upc = "idle"
    /\ upc' = IF no_plan(user_id) THEN "reply_refused"
              ELSE IF already_processing(user_id) THEN "reply_processing"
              ELSE "get_file"
    /\ ureq' = [NoUreq EXCEPT !.user_id = user_id]
    /\ UNCHANGED <<apivars, probe, store, botvars, apc, areq, alerts, followups, decisions, ghost>>

\* a reply_text or edit_message_text after which the handler returns (lines
\* 323, 377, 418, 422, 442) came back or raised
ScreenshotReturn(ok) ==
    /\ upc \in {"reply_invalid", "reply_expired", "reply_refused", "reply_processing", "reply_failed"}
    /\ upc' = IF ok THEN "idle" ELSE "error"
    /\ ureq' = NoUreq
    /\ UNCHANGED <<apivars, probe, store, botvars, apc, areq, alerts, followups, decisions, ghost>>

\* get_file() returned or raised (caught, line 429); lines 434-436 read the
\* session and raise KeyError when it is gone
ScreenshotGetFile(ok) ==
    /\ upc = "get_file"
    /\ IF ~ok
       THEN upc' = "idle" /\ ureq' = NoUreq
       ELSE IF no_plan(ureq.user_id)
       THEN upc' = "error" /\ ureq' = NoUreq
       ELSE /\ upc' = "create"
            /\ ureq' = [ureq EXCEPT !.udid = user_data[ureq.user_id].udid,
                          !.payment_option = user_data[ureq.user_id].payment_option]
    /\ UNCHANGED <<apivars, probe, store, botvars, apc, areq, alerts, followups, decisions, ghost>>

\* an entry that carries the number of the user's upload, not the store's id
PendingOf_numbered(user_id, udid, payment_option, order_id) ==
    [username |-> user_id, udid |-> udid, payment_option |-> payment_option,
     fastapi_order_id |-> 1]

\* lines 448-454
PendingOf(user_id, udid, payment_option, order_id) ==
    [username |-> user_id, udid |-> udid, payment_option |-> payment_option,
     fastapi_order_id |-> order_id]

order_missing_never(order_id) == FALSE

\* line 441: `if not order_id`; None is modelled as 0
order_missing(order_id) == order_id = 0

\* create_fastapi_order returned: "ok" the store inserted and answered 200,
\* "lost" the store inserted and the answer did not arrive, "fail" the store
\* was not reached or refused
ScreenshotCreate(outcome) ==
    LET order_id == IF outcome = "ok" THEN next_id ELSE 0 IN
    /\ upc = "create"
    /\ outcome \in {"ok", "lost"} => next_id <= MaxOrders
    /\ IF outcome \in {"ok", "lost"}
       THEN /\ orders' = create_order(orders, next_id, ureq.user_id,
                                      ureq.payment_option, ureq.udid)
            /\ next_id' = next_id + 1
       ELSE UNCHANGED store
    /\ ureq' = [ureq EXCEPT !.order_id = order_id]
    /\ IF order_missing(order_id)
       THEN /\ UNCHANGED pending_approvals
            /\ upc' = "reply_failed"
       ELSE /\ pending_approvals' =
                 dict_set(pending_approvals, ureq.user_id,
                          PendingOf(ureq.user_id, ureq.udid,
                                    ureq.payment_option, order_id))
            /\ upc' = "reply"
    /\ UNCHANGED <<apivars, probe, user_data, completed_orders, apc, areq, alerts, followups,
                   decisions, ghost>>

\* the "Processing your payment screenshot" reply returned or raised
ScreenshotReply(ok) ==
    /\ upc = "reply"
    /\ upc' = IF ok THEN "alert" ELSE "error"
    /\ ureq' = IF ok THEN ureq ELSE NoUreq
    /\ UNCHANGED <<apivars, probe, store, botvars, apc, areq, alerts, followups, decisions, ghost>>

\* send_to_bot_2_for_approval returned: "ok" delivered, "fail" not delivered,
\* "lost" delivered and the answer did not arrive (reported as a failure)
ScreenshotAlert(outcome) ==
    /\ upc = "alert"
    /\ alerts' = IF outcome \in {"ok", "lost"}
                 THEN alerts \cup {ureq.order_id} ELSE alerts
    /\ upc' = IF outcome = "ok" THEN "idle" ELSE "reply_alert_failed"
    /\ ureq' = IF outcome = "ok" THEN NoUreq ELSE ureq
    /\ UNCHANGED <<apivars, probe, store, botvars, apc, areq, followups, decisions, ghost>>

alert_failed_keep(d, user_id) == d

\* lines 472-473
alert_failed(d, user_id) == IF user_id \in DOMAIN d THEN dict_del(d, user_id) ELSE d

\* the "Error sending approval request" reply returned or raised
ScreenshotAlertFailed(ok) ==
    /\ upc = "reply_alert_failed"
    /\ IF ok
       THEN /\ pending_approvals' = alert_failed(pending_approvals, ureq.user_id)
            /\ upc' = "idle"
            /\ ureq' = NoUreq
       ELSE /\ UNCHANGED pending_approvals
            /\ upc' = "error"
            /\ ureq' = NoUreq
    /\ UNCHANGED <<apivars, probe, store, user_data, completed_orders, apc, areq, alerts,
                   followups, decisions, ghost>>

\* error_handler logged the exception of a user-session handler
UserError ==
    /\ upc = "error"
    /\ upc' = "idle"
    /\ ureq' = NoUreq
    /\ UNCHANGED <<apivars, probe, store, botvars, apc, areq, alerts, followups, decisions, ghost>>

\* --------------------------------------------------------- admin session
\* the admin presses Approve or Reject under an approval request
AdminPress(action, order_id) ==
    /\ apc = "idle"
    /\ order_id \in alerts
    /\ decisions < MaxDecisions
    /\ decisions' = decisions + 1
    /\ apc' = "answer"
    /\ areq' = [NoAreq EXCEPT !.action = action, !.order_id = order_id]
    /\ UNCHANGED <<apivars, probe, store, botvars, upc, ureq, alerts, followups, ghost>>

find_user_any(order_id) == DOMAIN pending_approvals

\* line 516: the users whose pending approval carries order_id
find_user(order_id) ==
    {uid \in DOMAIN pending_approvals :
        pending_approvals[uid].fastapi_order_id = order_id}

\* handle_bot2_callback from the return of query.answer() to its next
\* await: the "no longer valid" edit, or the status call inside
\* send_response_to_user
AdminLookup(answered) ==
    /\ apc = "answer"
    /\ IF ~answered
       THEN apc' = "error" /\ areq' = NoAreq
       ELSE IF find_user(areq.order_id) = {}
       THEN apc' = "expired" /\ areq' = areq
       ELSE \E uid \in find_user(areq.order_id) :
              /\ areq' = [areq EXCEPT !.user_id = uid,
                                      !.user_info = pending_approvals[uid]]
              /\ apc' = "update"
    /\ UNCHANGED <<apivars, probe, store, botvars, upc, ureq, alerts, followups, decisions, ghost>>

\* the "no longer valid" edit returned or raised
AdminExpired(ok) ==
    /\ apc = "expired"
    /\ apc' = IF ok THEN "idle" ELSE "error"
    /\ areq' = NoAreq
    /\ UNCHANGED <<apivars, probe, store, botvars, upc, ureq, alerts, followups, decisions, ghost>>

\* update_fastapi_order_status: the request the bot sends and the store's
\* answer; code 0 stands for no answer (connection error, timeout)
update_fastapi_order_status(rows, order_id, status, reached) ==
    IF reached
    THEN BackendPut(rows, <<"orders", order_id, "status">>,
                    FASTAPI_ADMIN_TOKEN, EmptyDict)
    ELSE [code |-> 0, rows |-> rows]

StatusOf(action) == IF action = "approve" THEN "approved" ELSE "rejected"

\* lines 191-197
CompletedOf(user_info, order_id) ==
    [username |-> user_info.username, udid |-> user_info.udid,
     payment_option |-> user_info.payment_option, fastapi_order_id |-> order_id]

\* lines 181-182 and 212-213: whether send_response_to_user goes on after
\* a status call that answered with code
goes_on(code) == TRUE

completes_always(action) == TRUE

\* line 180: the branch that writes completed_orders and starts the task
completes(action) == action = "approve"

\* send_response_to_user from the return of the status call to the await
\* of sendPhoto
AdminUpdate(reached) ==
    LET resp == update_fastapi_order_status(orders, areq.order_id,
                                            StatusOf(areq.action), reached)
    IN
    /\ apc = "update"
    /\ orders' = resp.rows
    /\ areq' = [areq EXCEPT !.code = resp.code]
    /\ IF completes(areq.action) /\ goes_on(resp.code)
       THEN /\ completed_orders' =
                 dict_set(completed_orders, areq.user_id,
                          CompletedOf(areq.user_info, areq.order_id))
            /\ followups' = dict_set(followups, areq.user_id,
                                      tasks(areq.user_id) + 1)
            /\ processed' = processed \cup {areq.order_id}
       ELSE UNCHANGED <<completed_orders, followups, processed>>
    /\ apc' = IF goes_on(resp.code) THEN "notify" ELSE "idle"
    /\ UNCHANGED <<apivars, probe, next_id, user_data, pending_approvals, upc, ureq, alerts,
                   decisions, after_reject>>

\* a handler that gives up at line 525 when the response was not sent
AdminNotify_giveup(ok) ==
    /\ apc = "notify"
    /\ apc' = IF ok THEN "edit" ELSE "idle"
    /\ areq' = IF ok THEN [areq EXCEPT !.sent = ok] ELSE NoAreq
    /\ UNCHANGED <<apivars, probe, store, botvars, upc, ureq, alerts, followups,
                   decisions, ghost>>

\* sendPhoto to the user returned 200 or not: send_response_to_user returns
\* the result (sent) and handle_bot2_callback drops it
AdminNotify(ok) ==
    /\ apc = "notify"
    /\ apc' = "edit"
    /\ areq' = [areq EXCEPT !.sent = ok]
    /\ UNCHANGED <<apivars, probe, store, botvars, upc, ureq, alerts, followups,
                   decisions, ghost>>

remove_session_always(action) == TRUE

remove_session_never(action) == FALSE

\* line 543: the decision that also removes the session
remove_session(action) == action = "approve"

\* the edit of the admin message returned or raised; lines 542-545, where
\* del raises KeyError when the entry is gone
AdminEdit(ok) ==
    /\ apc = "edit"
    /\ IF ok /\ areq.user_id \in DOMAIN pending_approvals
       THEN /\ pending_approvals' = dict_del(pending_approvals, areq.user_id)
            /\ user_data' =
                 IF remove_session(areq.action)
                    /\ areq.user_id \in DOMAIN user_data
                 THEN dict_del(user_data, areq.user_id) ELSE user_data
            /\ after_reject' =
                 IF areq.action = "reject"
                 THEN after_reject \cup {areq.user_id}
                 ELSE after_reject \ {areq.user_id}
            /\ apc' = "idle"
            /\ areq' = NoAreq
       ELSE /\ UNCHANGED <<pending_approvals, user_data, after_reject>>
            /\ apc' = "error"
            /\ areq' = NoAreq
    /\ UNCHANGED <<apivars, probe, store, completed_orders, upc, ureq, alerts, followups,
                   decisions, processed>>

\* error_handler logged the exception of an admin-session handler
AdminError ==
    /\ apc = "error"
    /\ apc' = "idle"
    /\ areq' = NoAreq
    /\ UNCHANGED <<apivars, probe, store, botvars, upc, ureq, alerts, followups, decisions, ghost>>

\* ------------------------------------------------------- background task
\* the sleep of a send_alert_after_30s task ends and it sends its photo
send_alert_after_30s(user_id) ==
    /\ tasks(user_id) > 0
    /\ followups' = IF tasks(user_id) = 1 THEN dict_del(followups, user_id)
                     ELSE dict_set(followups, user_id, tasks(user_id) - 1)
    /\ UNCHANGED <<apivars, probe, store, botvars, upc, ureq, apc, areq, alerts, decisions, ghost>>

Next ==
    \/ \E u \in Users : start(u)
    \/ \E u \in Users, t \in Texts : handle_other_messages(u, t)
    \/ \E u \in Users, p \in PlanInputs, a \in BOOLEAN : handle_payment_button(u, p, a)
    \/ \E u \in Users : ScreenshotStart(u)
    \/ \E ok \in BOOLEAN : ScreenshotReturn(ok)
    \/ \E ok \in BOOLEAN : ScreenshotGetFile(ok)
    \/ \E o \in {"ok", "lost", "fail"} : ScreenshotCreate(o)
    \/ \E ok \in BOOLEAN : ScreenshotReply(ok)
    \/ \E o \in {"ok", "lost", "fail"} : ScreenshotAlert(o)
    \/ \E ok \in BOOLEAN : ScreenshotAlertFailed(ok)
    \/ UserError
    \/ \E a \in {"approve", "reject"}, o \in OrderIds : AdminPress(a, o)
    \/ \E a \in BOOLEAN : AdminLookup(a)
    \/ \E ok \in BOOLEAN : AdminExpired(ok)
    \/ \E r \in BOOLEAN : AdminUpdate(r)
    \/ \E ok \in BOOLEAN : AdminNotify(ok)
    \/ \E ok \in BOOLEAN : AdminEdit(ok)
    \/ AdminError
    \/ \E u \in Users : send_alert_after_30s(u)

Spec == Init /\ [][Next]_vars

\* ------------------------------------ follow-up tasks, one user
\* The events of one user in runs where the calls of the user session come
\* back, with every outcome of the calls of the admin session.  asyncio
\* runs a task whose sleep has ended: a send_alert_after_30s task that can
\* fire does fire (nothing cancels it and no handler blocks the loop).
FollowupNext ==
    \/ \E u \in Users : start(u)
    \/ \E u \in Users, t \in {UdidB, StartText} : handle_other_messages(u, t)
    \/ \E u \in Users : handle_payment_button(u, "12", TRUE)
    \/ \E u \in Users : ScreenshotStart(u)
    \/ ScreenshotReturn(TRUE)
    \/ ScreenshotGetFile(TRUE)
    \/ ScreenshotCreate("ok")
    \/ ScreenshotReply(TRUE)
    \/ ScreenshotAlert("ok")
    \/ \E a \in {"approve", "reject"}, o \in OrderIds : AdminPress(a, o)
    \/ \E a \in BOOLEAN : AdminLookup(a)
    \/ \E ok \in BOOLEAN : AdminExpired(ok)
    \/ \E r \in BOOLEAN : AdminUpdate(r)
    \/ \E ok \in BOOLEAN : AdminNotify(ok)
    \/ \E ok \in BOOLEAN : AdminEdit(ok)
    \/ AdminError
    \/ \E u \in Users : send_alert_after_30s(u)

FollowupSpec ==
    /\ Init /\ [][FollowupNext]_vars
    /\ \A u \in Users : WF_vars(send_alert_after_30s(u))

\* ------------------------------------------------- two users, no faults
\* The handlers are per user: the same actions with two users' events, in
\* runs where every Telegram call and every store call comes back.
TwoUsers == {1, 2}

NextTwoUsers ==
    \/ \E u \in TwoUsers : start(u)
    \/ \E u \in TwoUsers, t \in {UdidB, StartText} : handle_other_messages(u, t)
    \/ \E u \in TwoUsers : handle_payment_button(u, "12", TRUE)
    \/ \E u \in TwoUsers : ScreenshotStart(u)
    \/ ScreenshotReturn(TRUE)
    \/ ScreenshotGetFile(TRUE)
    \/ ScreenshotCreate("ok")
    \/ ScreenshotReply(TRUE)
    \/ ScreenshotAlert("ok")
    \/ \E a \in {"approve", "reject"}, o \in OrderIds : AdminPress(a, o)
    \/ AdminLookup(TRUE)
    \/ AdminExpired(TRUE)
    \/ AdminUpdate(TRUE)
    \/ AdminNotify(TRUE)
    \/ AdminEdit(TRUE)
    \/ AdminError
    \/ \E u \in TwoUsers : send_alert_after_30s(u)

SpecTwoUsers == Init /\ [][NextTwoUsers]_vars

\* ------------------------------------------------ clients of the order API
\* The requests of the admin panel and of the public order page, one call
\* at a time; the bot is idle.  client records the call and its answer.
Headers == {<<>>, <<"Bearer", ADMIN_TOKEN>>, <<"Bearer", "guess">>}
\* for the calls that answer a wrong credential like none
ReadHeaders == {<<>>, <<"Bearer", ADMIN_TOKEN>>}
Statuses == {"pending", "approved", "rejected", "shipped"}
\* the form fields of the PUT requests sent: one status, or none
Forms == {[k \in {"status"} |-> st] : st \in Statuses} \cup {EmptyDict}
\* the ids asked for: those the sequence can assign and one beyond
AskedIds == 1..(MaxOrders + 1)
Pages == {1, 2}
PageSizes == {0, 1, 51}
ImageNumbers == {1, 6}

apibot == <<user_data, pending_approvals, completed_orders, upc, ureq, apc,
            areq, alerts, followups, decisions, processed, after_reject, probe>>

ApiCreateOrder(header, user, payment_option, udid, content) ==
    LET resp == post_order(orders, next_id, user, payment_option, udid, content) IN
    /\ next_id <= MaxOrders
    /\ orders' = resp.rows
    /\ next_id' = IF resp.code = 200 THEN next_id + 1 ELSE next_id
    /\ client' = [op |-> "create_order", header |-> header, code |-> resp.code,
                  order_id |-> resp.id]
    /\ UNCHANGED <<config, apibot>>

ApiGetOrder(header, order_id) ==
    /\ client' = [op |-> "get_order", header |-> header,
                  code |-> get_order(orders, order_id).code, order_id |-> order_id]
    /\ UNCHANGED <<store, config, apibot>>

ApiUpdateOrder(header, order_id, form) ==
    LET resp == BackendPut(orders, <<"orders", order_id>>, oauth2_scheme(header), form) IN
    /\ orders' = resp.rows
    /\ client' = [op |-> "update_order", header |-> header, code |-> resp.code,
                  order_id |-> order_id]
    /\ UNCHANGED <<next_id, config, apibot>>

ApiDeleteOrder(header, order_id) ==
    LET resp == BackendDelete(orders, header, order_id) IN
    /\ orders' = resp.rows
    /\ client' = [op |-> "delete_order", header |-> header, code |-> resp.code,
                  order_id |-> order_id]
    /\ UNCHANGED <<next_id, config, apibot>>

ApiUpdateConfigPublic(header, public_image_url) ==
    LET resp == update_config_public(config, header, public_image_url) IN
    /\ config' = resp.cfg
    /\ client' = [op |-> "update_config_public", header |-> header,
                  code |-> resp.code]
    /\ UNCHANGED <<store, apibot>>

ApiUpdateConfigEsignImage(header, image_number, image_url) ==
    LET resp == update_config_esign_image(config, header, image_number, image_url) IN
    /\ config' = resp.cfg
    /\ client' = [op |-> "update_config_esign_image", header |-> header,
                  code |-> resp.code]
    /\ UNCHANGED <<store, apibot>>

\* client keeps the query parameters sent (asked) and the page returned
ApiListOrders(header, status, q, page, page_size, sort) ==
    LET resp == list_orders(orders, config, header, status, q, page, page_size, sort) IN
    /\ client' = [op |-> "list_orders", header |-> header, code |-> resp.code,
                  status |-> status, q |-> q, sort |-> sort,
                  asked_page |-> page, asked |-> page_size,
                  items |-> resp.items, total |-> resp.total,
                  page |-> resp.page, page_size |-> resp.page_size]
    /\ UNCHANGED <<store, config, apibot>>

ApiNext ==
    \/ \E h \in ReadHeaders, c \in {<<>>, <<"jpg">>} :
          ApiCreateOrder(h, "web", "7", strip(UdidB), c)
    \/ \E h \in ReadHeaders, o \in AskedIds : ApiGetOrder(h, o)
    \/ \E h \in Headers, o \in AskedIds, f \in Forms : ApiUpdateOrder(h, o, f)
    \/ \E h \in Headers, o \in AskedIds : ApiDeleteOrder(h, o)
    \/ \E h \in Headers, url \in {"", "cart.png"} : ApiUpdateConfigPublic(h, url)
    \/ \E h \in Headers, n \in ImageNumbers, url \in {"", "esign.png"} :
          ApiUpdateConfigEsignImage(h, n, url)
    \/ \E h \in ReadHeaders, p \in Pages, ps \in PageSizes, srt \in {"-id", "id"} :
          ApiListOrders(h, "", <<>>, p, ps, srt)

ApiSpec == Init /\ [][ApiNext]_vars

\* ------------------------------------------------ list_orders on its own
\* One listing of a store that holds any orders the order page can have
\* placed and the admin panel decided or deleted, with every filter, page,
\* page size and sort order below.
UdidC == <<"0","0","0","0","8","0","3","0","-","0","0","1","A","2","B","3","C","4","D","5","E","6","F">>
ListRows ==
    {[OrderRow("web", "7", d) EXCEPT !.status = st] :
        d \in {strip(UdidB), UdidC}, st \in {"pending", "approved"}}
ListStores == UNION {[ids -> ListRows] : ids \in SUBSET OrderIds}
ListStatuses == {"", "pending", "approved"}
\* no query, one that only UdidB matches and one that every name matches
ListQueries == {<<>>, <<"c", "2", "d">>, <<"E", "B">>}
ListPages == {0, 1, 2, 3}
ListPageSizes == {0, 2, 51}
ListSorts == {"-id", "id", "name"}

ListInit ==
    /\ \E rows \in ListStores : orders = rows
    /\ next_id = MaxOrders + 1
    /\ user_data = EmptyDict
    /\ pending_approvals = EmptyDict
    /\ completed_orders = EmptyDict
    /\ upc = "idle" /\ ureq = NoUreq
    /\ apc = "idle" /\ areq = NoAreq
    /\ alerts = {}
    /\ followups = EmptyDict
    /\ decisions = 0
    /\ processed = {}
    /\ after_reject = {}
    /\ config = EmptyDict
    /\ client = NoCall
    /\ probe = NoProbe

List ==
    /\ client = NoCall
    /\ \E h \in ReadHeaders, st \in ListStatuses, q \in ListQueries,
          p \in ListPages, ps \in ListPageSizes, srt \in ListSorts :
          ApiListOrders(h, st, q, p, ps, srt)

ListSpec == ListInit /\ [][List]_vars

\* ------------------------------------------------ the config relation
\* The calls that validate their input, with image numbers on both sides of
\* 1..5 and two URLs a key can hold, next to order creation.
ConfigNumbers == {0, 1, 5, 6}
ConfigUrls == {"", "esign.png", "esign2.png"}
Contents == {<<>>, <<"jpg">>}

ConfigNext ==
    \/ \E h \in ReadHeaders, c \in Contents : ApiCreateOrder(h, "web", "7", strip(UdidB), c)
    \/ \E h \in Headers, url \in ConfigUrls : ApiUpdateConfigPublic(h, url)
    \/ \E h \in Headers, n \in ConfigNumbers, url \in ConfigUrls :
          ApiUpdateConfigEsignImage(h, n, url)

ConfigSpec == Init /\ [][ConfigNext]_vars

\* ------------------------------------------------ validate_udid on its own
MaxText == 51         \* longest text handed to validate_udid

\* the characters of the texts: the 23 of valid_chars and some others
ProbeChars == valid_chars \cup {"g", "G", "z", "Z", " ", "_", ":", "/"}

\* the text of length n that is all c but for d at position k
OneOff(n, c, k, d) == [i \in 1..n |-> IF i = k THEN d ELSE c]

\* every length from the empty text to MaxText, the odd character at every
\* position
ProbeTexts ==
    {<<>>} \cup
    {OneOff(n, "a", k, d) : n \in 1..MaxText, k \in 1..MaxText, d \in ProbeChars}

UdidInit ==
    /\ Fresh
    /\ client = NoCall
    /\ \E t \in ProbeTexts : probe = [NoProbe EXCEPT !.text = t]

Validate ==
    /\ ~probe.done
    /\ probe' = [probe EXCEPT !.done = TRUE, !.accepted = validate_udid(probe.text)]
    /\ UNCHANGED <<store, botvars, upc, ureq, apc, areq, alerts, followups,
                   decisions, ghost, apivars>>

UdidSpec == UdidInit /\ [][Validate]_vars

\* ================================================================= claims
\* what the user-session handler and the admin-session handler leave alone
\* when they touch neither the store, the dictionaries nor the admin chat
Untouched == UNCHANGED <<orders, next_id, user_data, pending_approvals,
                         completed_orders, alerts, followups>>

\* a step in which handle_screenshot starts: of the handlers of the user
\* session only it, the refusal of a text and the refusal of a plan leave
\* the idle position
UploadBegins ==
    upc = "idle" /\ upc' \notin {"idle", "reply_invalid", "reply_expired"}

\* C1: once the status call of an admin decision for a matching pending
\* approval has been answered by the order API, the stored status of that
\* order is 'approved' for approve and 'rejected' for reject.
C1_StatusFollowsDecision ==
    (apc \in {"notify", "edit"} /\ areq.code # 0)
        => orders[areq.order_id].status = StatusOf(areq.action)

\* C2: an upload made while the user has a pending approval is refused with
\* nothing changed, so the upload handler is between its checks and the
\* create-order call only for a user without a pending approval.
C2_SecondUploadRefused ==
    /\ [](upc \in {"get_file", "create"}
            => ureq.user_id \notin DOMAIN pending_approvals)
    /\ [][(UploadBegins
              /\ ureq'.user_id \in DOMAIN pending_approvals)
            => (upc' \in {"reply_processing", "reply_refused"} /\ Untouched)]_vars
    /\ [][(upc = "reply_processing" /\ upc' # upc)
            => (upc' \in {"idle", "error"} /\ Untouched)]_vars

C2_Witness ==
    /\ upc = "reply_processing"
    /\ ureq.user_id \in DOMAIN pending_approvals

\* C3 as claimed: when an upload handler that got an order id has finished,
\* the user's pending approval holds that order id, also after a failed
\* admin alert.
C3_PendingAfterUpload ==
    [][(upc \in {"reply", "alert", "reply_alert_failed"}
          /\ upc' \in {"idle", "error"})
        => (/\ ureq.user_id \in DOMAIN pending_approvals'
            /\ pending_approvals'[ureq.user_id].fastapi_order_id
                 = ureq.order_id)]_vars

\* C3 amended: the upload handler records the pending approval once, for a
\* user without one, when create-order returns an id, and with exactly that
\* id; it leaves the entry in place when the alert is delivered and removes
\* it after a failed alert once the failure notice is sent; the order row
\* stays.
C3_PendingRecordedOnce ==
    /\ [][(upc = "create" /\ upc' # upc /\ ureq'.order_id # 0)
            => (/\ upc' = "reply"
                /\ ureq.user_id \notin DOMAIN pending_approvals
                /\ ureq'.order_id \in DOMAIN orders' \ DOMAIN orders
                /\ DOMAIN pending_approvals'
                     = DOMAIN pending_approvals \cup {ureq.user_id}
                /\ pending_approvals'[ureq.user_id].fastapi_order_id
                     = ureq'.order_id
                /\ pending_approvals'[ureq.user_id].udid
                     = orders'[ureq'.order_id].udid
                /\ alerts' = alerts)]_vars
    /\ [][(upc = "alert" /\ upc' = "idle")
            => pending_approvals' = pending_approvals]_vars
    /\ [][(upc = "reply_alert_failed" /\ upc' = "idle")
            => (/\ ureq.user_id \notin DOMAIN pending_approvals'
                /\ orders' = orders)]_vars

C3_Witness ==
    /\ upc = "reply_alert_failed"
    /\ ureq.user_id \in DOMAIN pending_approvals
    /\ pending_approvals[ureq.user_id].fastapi_order_id = ureq.order_id

\* C4: an approve event for an order whose approval already wrote its
\* completed order finds no matching pending approval.
C4_SecondApproveExpired ==
    [][(apc = "answer" /\ apc' # apc /\ areq.action = "approve"
          /\ areq.order_id \in processed)
        => apc' \in {"expired", "error"}]_vars

\* C5: the pending approval the decision handler removes is the one whose
\* order id the decision names.
C5_RemovesOwnEntry ==
    [][(apc = "edit" /\ apc' = "idle")
        => pending_approvals[areq.user_id].fastapi_order_id = areq.order_id]_vars

\* C6: when create-order returns no id the handler records no pending
\* approval and sends no alert, the session still holds the udid and plan
\* the upload read, and the checks of a later upload pass; no pending
\* approval or alert ever names an id the store did not assign.
C6_CreateFailure ==
    /\ [](upc = "reply_failed"
            => (/\ ureq.order_id = 0
                /\ ureq.user_id \notin DOMAIN pending_approvals
                /\ ureq.user_id \in DOMAIN user_data
                /\ user_data[ureq.user_id]
                     = [udid |-> ureq.udid,
                        payment_option |-> ureq.payment_option]))
    /\ [](\A u \in DOMAIN pending_approvals :
            pending_approvals[u].fastapi_order_id \in DOMAIN orders)
    /\ [](alerts \subseteq DOMAIN orders)
    /\ [][(upc = "create" /\ upc' # upc /\ ureq'.order_id = 0)
            => (/\ upc' = "reply_failed"
                /\ UNCHANGED <<user_data, pending_approvals, completed_orders,
                               alerts, followups>>)]_vars
    /\ [][(upc = "reply_failed" /\ upc' # upc)
            => (upc' \in {"idle", "error"} /\ Untouched)]_vars

C6_Witness ==
    /\ upc = "reply_failed"
    /\ ureq.user_id \in DOMAIN user_data
    /\ "payment_option" \in DOMAIN user_data[ureq.user_id]

\* C7: when the status call of a decision fails, no completed order is
\* written, no follow-up task is started and the handler does not go on to
\* send the response photo.
C7_AbandonedOnUpdateFailure ==
    [][(apc = "update" /\ apc' # apc /\ areq'.code # 200)
        => (UNCHANGED <<completed_orders, followups>> /\ apc' # "notify")]_vars

\* C8: a decision whose order id no pending approval carries makes no store
\* call, sends nothing to the user, starts no task and changes no
\* dictionary; only the 'no longer valid' edit follows.  A decision that
\* does go on holds a pending approval with its order id.
NoMatch(order_id) ==
    \A u \in DOMAIN pending_approvals :
        pending_approvals[u].fastapi_order_id # order_id

C8_UnmatchedDecisionNoOp ==
    /\ [][(apc = "answer" /\ apc' # apc /\ NoMatch(areq.order_id))
            => (apc' \in {"expired", "error"} /\ Untouched)]_vars
    /\ [][(apc = "expired" /\ apc' # apc)
            => (apc' \in {"idle", "error"} /\ Untouched)]_vars
    /\ [](apc \in {"update", "notify", "edit"}
            => areq.user_info.fastapi_order_id = areq.order_id)

C8_Witness ==
    /\ apc = "expired"
    /\ NoMatch(areq.order_id)
    /\ pending_approvals # EmptyDict

\* C9: a completed order is written only by the approve branch of a
\* decision, for the user of the pending approval it matched and with that
\* approval's order id, udid and plan (those of the order row); a reject
\* writes none.
C9_CompletedOnlyByApprove ==
    /\ [](\A u \in DOMAIN completed_orders :
            LET c == completed_orders[u] IN
            /\ c.fastapi_order_id \in DOMAIN orders
            /\ orders[c.fastapi_order_id].udid = c.udid
            /\ orders[c.fastapi_order_id].price = c.payment_option
            /\ orders[c.fastapi_order_id].name[1] = u)
    /\ [][completed_orders' # completed_orders
            => (/\ apc = "update"
                /\ areq.action = "approve"
                /\ DOMAIN completed_orders'
                     = DOMAIN completed_orders \cup {areq.user_id}
                /\ \A u \in DOMAIN completed_orders \ {areq.user_id} :
                     completed_orders'[u] = completed_orders[u]
                /\ completed_orders'[areq.user_id].fastapi_order_id
                     = areq.order_id
                /\ completed_orders'[areq.user_id].udid = areq.user_info.udid
                /\ completed_orders'[areq.user_id].payment_option
                     = areq.user_info.payment_option)]_vars

C9_Witness ==
    /\ apc = "edit"
    /\ areq.action = "reject"
    /\ areq.user_id \in DOMAIN completed_orders
    /\ completed_orders[areq.user_id].fastapi_order_id # areq.order_id

\* C10 as claimed: after a rejection the next accepted step of the user is
\* a UDID text, not a proof upload.
C10_UdidTextAfterReject ==
    upc = "get_file" => ureq.user_id \notin after_reject

\* C10 amended: a processed reject removes the pending approval and leaves
\* the session as it is, so the session outlives the rejection and a proof
\* upload sent next is accepted when the session holds a plan.
C10_RejectKeepsSession ==
    /\ [][(apc = "edit" /\ apc' = "idle" /\ areq.action = "reject")
            => (/\ user_data' = user_data
                /\ areq.user_id \notin DOMAIN pending_approvals'
                /\ UNCHANGED <<orders, completed_orders>>)]_vars
    /\ [](\A u \in after_reject : u \in DOMAIN user_data)
    /\ [][(UploadBegins
              /\ ureq'.user_id \in after_reject
              /\ ureq'.user_id \notin DOMAIN pending_approvals
              /\ "payment_option" \in DOMAIN user_data[ureq'.user_id])
            => upc' = "get_file"]_vars

C10_Witness ==
    /\ upc = "get_file"
    /\ ureq.user_id \in after_reject

\* C11: a fully processed approve leaves its user without session and
\* without pending approval; an upload of a user without session is refused
\* with nothing changed, and a session that appears is the one a UDID text
\* writes, without plan, so that no upload passes before a new UDID and a
\* new plan arrived.
C11_ApproveClearsUser ==
    /\ [][(apc = "edit" /\ apc' = "idle" /\ areq.action = "approve")
            => (/\ areq.user_id \notin DOMAIN user_data'
                /\ areq.user_id \notin DOMAIN pending_approvals')]_vars
    /\ [][(UploadBegins
              /\ ureq'.user_id \notin DOMAIN user_data)
            => (upc' = "reply_refused" /\ Untouched)]_vars
    /\ [][(upc = "reply_refused" /\ upc' # upc)
            => (upc' \in {"idle", "error"} /\ Untouched)]_vars
    /\ [][\A u \in DOMAIN user_data' \ DOMAIN user_data :
            "payment_option" \notin DOMAIN user_data'[u]]_vars

C11_Witness ==
    /\ upc = "reply_refused"
    /\ ureq.user_id \in DOMAIN completed_orders
    /\ apc = "idle"
    /\ ureq.user_id \notin DOMAIN user_data
    /\ ureq.user_id \notin DOMAIN pending_approvals

\* the entries of every user but user_id are the same before and after
OthersSame(d, e, user_id) ==
    /\ DOMAIN e \ {user_id} = DOMAIN d \ {user_id}
    /\ \A v \in DOMAIN d \ {user_id} : e[v] = d[v]

\* C12: a /start of a user, whatever the user's entries, leaves the user
\* without session and without pending approval and changes nothing else:
\* not the user's completed order, not an entry of another user, not the
\* order store (the order of a discarded pending approval keeps its row).
C12_StartFrame ==
    [][\A u \in TwoUsers :
         start(u)
           => (/\ u \notin DOMAIN user_data'
               /\ u \notin DOMAIN pending_approvals'
               /\ completed_orders' = completed_orders
               /\ OthersSame(user_data, user_data', u)
               /\ OthersSame(pending_approvals, pending_approvals', u)
               /\ orders' = orders /\ next_id' = next_id
               /\ alerts' = alerts /\ followups' = followups)]_vars

\* before any admin decision, the order of user 1 is stored and user 1 has
\* neither session nor pending approval: a /start discarded them, while
\* user 2 has both
C12_Witness ==
    /\ upc = "idle" /\ decisions = 0
    /\ \E o \in DOMAIN orders : orders[o].name[1] = 1 /\ o \in alerts
    /\ 1 \notin DOMAIN user_data /\ 1 \notin DOMAIN pending_approvals
    /\ 2 \in DOMAIN user_data /\ 2 \in DOMAIN pending_approvals

\* the character class [0-9a-fA-F-]
HexDigitOrHyphen(c) ==
    \/ c \in {"0","1","2","3","4","5","6","7","8","9"}
    \/ c \in {"a","b","c","d","e","f"}
    \/ c \in {"A","B","C","D","E","F"}
    \/ c = "-"

C14_SpecUdidAccepted ==
    ~(/\ upc = "reply_invalid"
      /\ ureq.udid = SpecUdid
      /\ ureq.user_id \notin DOMAIN user_data)

\* C15: the plan of a session is one of 4, 7, 12 and 16, and a session that
\* holds a plan holds the same plan after every step that leaves it a plan.
C15_PlanSetOnce ==
    /\ [](\A u \in DOMAIN user_data :
            "payment_option" \in DOMAIN user_data[u]
              => user_data[u].payment_option \in {"4", "7", "12", "16"})
    /\ [][\A u \in DOMAIN user_data \cap DOMAIN user_data' :
            ("payment_option" \in DOMAIN user_data[u]
               /\ "payment_option" \in DOMAIN user_data'[u])
              => user_data'[u].payment_option = user_data[u].payment_option]_vars

\* length in [20,50] and every character in [0-9a-fA-F-]
ValidUdidText(t) ==
    /\ 20 <= Len(t) /\ Len(t) <= 50
    /\ \A i \in 1..Len(t) : HexDigitOrHyphen(t[i])

\* a text without its leading and trailing blanks
Trimmed(t) ==
    LET inked == {i \in 1..Len(t) : t[i] # " "} IN
    IF inked = {} THEN <<>>
    ELSE SubSeq(t, CHOOSE i \in inked : \A j \in inked : i <= j,
                   CHOOSE i \in inked : \A j \in inked : j <= i)

\* the texts of Texts that pass, and each text without its outer blanks
ValidTexts == {t \in Texts : ValidUdidText(Trimmed(t))}
TrimmedOf == [t \in Texts |-> Trimmed(t)]

\* C16 as claimed: a text message whose text fails validation changes no
\* session, pending approval or completed order; one whose text passes
\* stores the udid in the sender's session.
C16_InvalidTextNoChange ==
    [][\A u \in Users, t \in Texts :
         handle_other_messages(u, t)
           => IF t \in ValidTexts
              THEN u \in DOMAIN user_data' /\ user_data'[u].udid = TrimmedOf[t]
              ELSE UNCHANGED <<user_data, pending_approvals,
                               completed_orders>>]_vars

\* the texts that do not contain "start" in any letter case
PlainTexts == {t \in Texts : ~contains(text_lower(t), <<"s", "t", "a", "r", "t">>)}

\* C16 amended: a text message that does not contain "start" in any letter
\* case and fails validation is answered with the format error and changes
\* no session, pending approval or completed order (nor the store); one
\* that passes validation stores the udid in the sender's session and
\* leaves the pending approvals and completed orders alone.
C16_InvalidTextNoChangeUnlessStart ==
    /\ [][\A u \in Users, t \in PlainTexts :
            (upc = "idle" /\ apc' = apc /\ areq' = areq
               /\ handle_other_messages(u, t))
              => IF t \in ValidTexts
                 THEN /\ u \in DOMAIN user_data'
                      /\ user_data'[u].udid = TrimmedOf[t]
                      /\ UNCHANGED <<pending_approvals, completed_orders,
                                     orders, next_id>>
                 ELSE /\ upc' = "reply_invalid" /\ ureq'.user_id = u
                      /\ Untouched]_vars
    /\ [][(upc = "reply_invalid" /\ upc' # upc)
            => (upc' \in {"idle", "error"} /\ Untouched)]_vars

\* the format error goes to a user who has a session with a plan and a
\* pending approval, which are still there
C16_Witness ==
    /\ upc = "reply_invalid"
    /\ ureq.user_id \in DOMAIN pending_approvals
    /\ ureq.user_id \in DOMAIN user_data
    /\ "payment_option" \in DOMAIN user_data[ureq.user_id]

\* C17: the status of every stored order is pending, approved or rejected,
\* and a status changes only from pending to approved or to rejected, so
\* that an approved or rejected order keeps its status.
C17_StatusOnce ==
    /\ [](\A id \in DOMAIN orders :
            orders[id].status \in {"pending", "approved", "rejected"})
    /\ [][\A id \in DOMAIN orders \cap DOMAIN orders' :
            orders'[id].status # orders[id].status
              => (/\ orders[id].status = "pending"
                  /\ orders'[id].status \in {"approved", "rejected"})]_vars

\* the request carries the bearer credential of the shared secret
HasSecret(header) == header = <<"Bearer", "nhoyhub_admin_2025">>

\* C18 as claimed: a create-order, update-order, delete-order or put-config
\* call without the secret is refused and changes neither the orders nor
\* the config.
C18_MutationsNeedSecret ==
    [][(/\ client'.op \in {"create_order", "update_order", "delete_order",
                           "update_config_public", "update_config_esign_image"}
        /\ ~HasSecret(client'.header))
        => (client'.code # 200 /\ orders' = orders /\ config' = config)]_vars

\* C18 amended: an update-order, delete-order or put-config call without
\* the secret is answered 401 and changes neither the orders nor the
\* config; create-order asks for no credential: it is never answered 401,
\* and with an image it inserts a row whoever calls.
C18_ChangesNeedSecret ==
    /\ [][(/\ client'.op \in {"update_order", "delete_order",
                               "update_config_public", "update_config_esign_image"}
            /\ ~HasSecret(client'.header))
            => (client'.code = 401 /\ orders' = orders /\ config' = config)]_vars
    /\ [][client'.op = "create_order"
            => (/\ client'.code \in {200, 400}
                /\ client'.code = 200
                      => (/\ DOMAIN orders' = DOMAIN orders \cup {client'.order_id}
                          /\ client'.order_id \notin DOMAIN orders)
                /\ client'.code = 400 => orders' = orders
                /\ config' = config)]_vars

\* a delete with a wrong credential was refused and the order is stored
C18_Witness ==
    /\ client.op = "delete_order"
    /\ client.header = <<"Bearer", "guess">>
    /\ client.code = 401
    /\ client.order_id \in DOMAIN orders

\* C19: a get, and an update or delete with the secret, of an id that no
\* stored order has is answered 404 and leaves the orders as they are.
C19_UnknownIdNotFound ==
    [][(/\ client'.op \in {"get_order", "update_order", "delete_order"}
        /\ client'.op = "get_order" \/ HasSecret(client'.header)
        /\ client'.order_id \notin DOMAIN orders)
        => (client'.code = 404 /\ orders' = orders)]_vars

\* the image the public view shows: the configured one, else the default
Placeholder ==
    IF <<"public_image_url">> \in DOMAIN config
    THEN config[<<"public_image_url">>] ELSE DEFAULT_CART_IMAGE

\* C20: every item list_orders returned to a caller without the secret
\* shows the placeholder image, every item returned to a caller with it
\* shows the image stored for its order, and the page size used is the one
\* asked for, raised to 1 or lowered to 50 when outside [1,50].
C20_ListImageAndPageSize ==
    client.op = "list_orders"
      => (/\ \A i \in 1..Len(client.items) :
                client.items[i].image_url
                  = IF HasSecret(client.header)
                    THEN orders[client.items[i].id].image_url
                    ELSE Placeholder
          /\ client.page_size
                = IF client.asked < 1 THEN 1
                  ELSE IF client.asked > 50 THEN 50 ELSE client.asked
          /\ Len(client.items) <= client.page_size)

\* a caller without the secret asked for 51 orders a page and got an order
\* whose stored image is not the configured placeholder it is shown with
C20_Witness ==
    /\ client.op = "list_orders"
    /\ ~HasSecret(client.header)
    /\ client.asked = 51 /\ client.page_size = 50
    /\ Len(client.items) >= 1
    /\ <<"public_image_url">> \in DOMAIN config
    /\ orders[client.items[1].id].image_url # client.items[1].image_url

\* C21: a create-order call answered 200 adds one row under an id that no
\* stored order has and that was never assigned before, with status
\* 'pending' and download link "#", answers with that id, and leaves every
\* stored order as it was.
C21_CreateAddsOne ==
    /\ [][(client'.op = "create_order" /\ client'.code = 200)
            => (/\ client'.order_id \notin DOMAIN orders
                /\ client'.order_id = next_id /\ next_id' > next_id
                /\ DOMAIN orders' = DOMAIN orders \cup {client'.order_id}
                /\ orders'[client'.order_id].status = "pending"
                /\ orders'[client'.order_id].download_link = "#"
                /\ \A o \in DOMAIN orders : orders'[o] = orders[o])]_vars
    /\ [](\A o \in DOMAIN orders : o < next_id)

\* the second order was created after the first was deleted, and got a
\* new id
C21_Witness ==
    /\ client.op = "create_order" /\ client.code = 200
    /\ client.order_id = 2
    /\ DOMAIN orders = {2}

\* C22: a put to an esign image number outside 1..5, a put of an empty
\* image URL and a create-order call with an empty image are answered with
\* an error and leave the orders and the config as they are; a put, with
\* the secret, of a URL to esign image n in 1..5 is answered 200, gives
\* key esign_image_n that URL, whether or not the key had a value, and
\* leaves every other key and the orders as they are.
C22_ValidationNoMutation ==
    /\ [][\A h \in Headers, n \in ConfigNumbers, url \in ConfigUrls :
            ApiUpdateConfigEsignImage(h, n, url)
              => IF n < 1 \/ n > 5 \/ url = ""
                 THEN /\ client'.code >= 400
                      /\ orders' = orders /\ next_id' = next_id
                      /\ config' = config
                 ELSE HasSecret(h)
                        => (/\ client'.code = 200
                            /\ DOMAIN config'
                                 = DOMAIN config \cup {<<"esign_image_", n>>}
                            /\ config'[<<"esign_image_", n>>] = url
                            /\ \A k \in DOMAIN config \ {<<"esign_image_", n>>} :
                                 config'[k] = config[k]
                            /\ orders' = orders /\ next_id' = next_id)]_vars
    /\ [][\A h \in Headers :
            ApiUpdateConfigPublic(h, "")
              => (/\ client'.code >= 400
                  /\ orders' = orders /\ next_id' = next_id
                  /\ config' = config)]_vars
    /\ [][\A h \in ReadHeaders :
            ApiCreateOrder(h, "web", "7", strip(UdidB), <<>>)
              => (/\ client'.code >= 400
                  /\ orders' = orders /\ next_id' = next_id
                  /\ config' = config)]_vars

\* a put with the secret was refused for its input while the config holds
\* the public image and two esign images, one of them replaced before
C22_Witness ==
    /\ client.op = "update_config_esign_image"
    /\ HasSecret(client.header) /\ client.code = 400
    /\ DOMAIN config = {<<"public_image_url">>, <<"esign_image_", 1>>,
                         <<"esign_image_", 5>>}
    /\ config[<<"esign_image_", 1>>] = "esign.png"
    /\ config[<<"esign_image_", 5>>] = "esign2.png"
    /\ orders # EmptyDict

C24_AlertAfterCreateAndPending ==
    /\ [][alerts' # alerts
            => (/\ upc = "alert"
                /\ alerts' = alerts \cup {ureq.order_id}
                /\ ureq.order_id \in DOMAIN orders
                /\ orders[ureq.order_id].name[1] = ureq.user_id
                /\ UNCHANGED <<orders, pending_approvals>>)]_vars
    /\ [][(upc' = "alert" /\ upc # "alert")
            => (upc = "reply" /\ ureq' = ureq
                  /\ UNCHANGED <<orders, alerts>>)]_vars
    /\ [][(upc' = "reply" /\ upc # "reply")
            => (/\ upc = "create"
                /\ ureq'.user_id = ureq.user_id
                /\ ureq'.order_id \in DOMAIN orders' \ DOMAIN orders
                /\ ureq'.order_id \notin alerts'
                /\ ureq.user_id \in DOMAIN pending_approvals'
                /\ pending_approvals'[ureq.user_id].fastapi_order_id
                     = ureq'.order_id)]_vars
    /\ [](upc \in {"reply", "alert"}
            => (ureq.order_id \in DOMAIN orders /\ ureq.order_id \notin alerts))

\* the request for the second order of a user is out, and the user's
\* pending approval carries that order
C24_Witness ==
    /\ upc = "idle" /\ alerts = {1, 2}
    /\ \E u \in DOMAIN pending_approvals :
          /\ pending_approvals[u].fastapi_order_id = 2
          /\ orders[2].name[1] = u

\* C25: a plan button pressed by a user without session is answered with
\* the "Session expired" edit and nothing else: no session appears, before
\* or after the edit, and the pending approvals, the completed orders and
\* the order store stay as they are.
C25_PlanWithoutSession ==
    /\ [][\A u \in Users, p \in PlanInputs :
            (u \notin DOMAIN user_data /\ handle_payment_button(u, p, TRUE))
              => (/\ upc' = "reply_expired" /\ ureq'.user_id = u
                  /\ Untouched)]_vars
    /\ [][(upc = "reply_expired" /\ upc' # upc)
            => (upc' \in {"idle", "error"} /\ Untouched)]_vars
    /\ [](upc = "reply_expired" => ureq.user_id \notin DOMAIN user_data)

\* the edit goes to a user whose order was approved and whose follow-up
\* task sleeps
C25_Witness ==
    /\ upc = "reply_expired"
    /\ ureq.user_id \in DOMAIN completed_orders
    /\ tasks(ureq.user_id) > 0
    /\ apc = "idle"

Within(x, q) ==
    \E i \in 1..Len(x) :
        /\ i + Len(q) - 1 <= Len(x)
        /\ \A j \in 1..Len(q) : lower(x[i + j - 1]) = lower(q[j])

\* the name the order page gave an order: "web ($<price> Plan)"
NameShown(id) ==
    <<"w", "e", "b", " ", "(", "$", orders[id].price, " ", "P", "l", "a", "n", ")">>

\* the rows a listing with the filters of the last call has to find
Matching ==
    {id \in DOMAIN orders :
        /\ client.status = "" \/ orders[id].status = client.status
        /\ \/ client.q = <<>>
           \/ Within(orders[id].udid, client.q)
           \/ Within(NameShown(id), client.q)}

\* the rows that come before row id in the order asked for
Before(id) ==
    {o \in Matching : IF client.sort = "-id" THEN o > id ELSE o < id}

\* C27: the total list_orders returns is the number of orders that match
\* the status and query filters, whatever the page; the page size is the
\* one asked for brought into [1,50] and the page the one asked for raised
\* to 1; the items are the matching orders whose rank by id, descending
\* for sort "-id" and ascending otherwise, is in (page-1)*pageSize+1 ..
\* page*pageSize, in that order.
C27_ListPage ==
    client.op = "list_orders"
      => LET size == IF client.asked < 1 THEN 1
                     ELSE IF client.asked > 50 THEN 50 ELSE client.asked
             page == IF client.asked_page < 1 THEN 1 ELSE client.asked_page
             offset == (page - 1) * size
             n == Cardinality(Matching)
         IN /\ client.total = n
            /\ client.page = page /\ client.page_size = size
            /\ Len(client.items) = (IF n - offset < 0 THEN 0
                                    ELSE IF n - offset > size THEN size
                                    ELSE n - offset)
            /\ \A i \in 1..Len(client.items) :
                  /\ client.items[i].id \in Matching
                  /\ Cardinality(Before(client.items[i].id)) = offset + i - 1
                  /\ client.items[i].status = orders[client.items[i].id].status

\* of two stored orders one matches the status and the query asked for;
\* the second page of size 1 is empty and the total is 1
C27_Witness ==
    /\ client.op = "list_orders"
    /\ client.status = "approved" /\ client.q = <<"c", "2", "d">>
    /\ client.sort = "id" /\ client.asked_page = 2 /\ client.page_size = 1
    /\ client.total = 1 /\ Len(client.items) = 0
    /\ Cardinality(DOMAIN orders) = 2

\* the session of the user holds a udid and a plan
HoldsUdidAndPlan(u) ==
    /\ u \in DOMAIN user_data
    /\ {"udid", "payment_option"} \subseteq DOMAIN user_data[u]

\* C28: an order row appears only in the create-order step of an upload
\* handler whose user has a session with udid and plan, the ones the row
\* gets, and had it when the upload arrived; an upload of a user without
\* session or with a session without plan is refused: no create-order call
\* follows and nothing changes.
C28_OrderNeedsUdidAndPlan ==
    /\ [][DOMAIN orders' # DOMAIN orders
            => (/\ upc = "create"
                /\ HoldsUdidAndPlan(ureq.user_id)
                /\ \E id \in DOMAIN orders' :
                      /\ DOMAIN orders' = DOMAIN orders \cup {id}
                      /\ id \notin DOMAIN orders
                      /\ orders'[id].udid = user_data[ureq.user_id].udid
                      /\ orders'[id].price
                           = user_data[ureq.user_id].payment_option)]_vars
    /\ [](upc \in {"get_file", "create"} => HoldsUdidAndPlan(ureq.user_id))
    /\ [][(UploadBegins /\ ~HoldsUdidAndPlan(ureq'.user_id))
            => (upc' = "reply_refused" /\ Untouched)]_vars
    /\ [][(UploadBegins /\ upc' \in {"get_file", "create"})
            => HoldsUdidAndPlan(ureq'.user_id)]_vars
    /\ [][upc = "reply_refused"
            => (upc' \in {"reply_refused", "idle", "error"}
                  /\ UNCHANGED <<orders, next_id>>)]_vars

\* the upload of a user whose session holds a udid and no plan is refused,
\* while an earlier order of the user is stored
C28_Witness ==
    /\ upc = "reply_refused"
    /\ ureq.user_id \in DOMAIN user_data
    /\ "payment_option" \notin DOMAIN user_data[ureq.user_id]
    /\ \E o \in DOMAIN orders : orders[o].name[1] = ureq.user_id

\* C29: in runs where every Telegram call and every store call comes back,
\* the decision handler never raises: at its removal step the pending
\* approval of the user it resolved is present, also after a /start of
\* that user that was handled while the decision handler waited.
C29_DecisionHandlerCompletes ==
    apc # "error"

\* C30: no two users' pending approvals carry the same order id: each
\* carries the id of an order the store keeps under that user's name, so
\* the scan for the order id of a decision finds at most one user, and the
\* user a decision handler resolved is the one who placed the order.
C30_PendingIdsDistinct ==
    /\ \A u \in DOMAIN pending_approvals : \A v \in DOMAIN pending_approvals :
          pending_approvals[u].fastapi_order_id
            = pending_approvals[v].fastapi_order_id => u = v
    /\ \A u \in DOMAIN pending_approvals :
          /\ pending_approvals[u].fastapi_order_id \in DOMAIN orders
          /\ orders[pending_approvals[u].fastapi_order_id].name[1] = u
    /\ \A o \in OrderIds : Cardinality(find_user(o)) <= 1
    /\ apc \in {"update", "notify", "edit"}
          => orders[areq.order_id].name[1] = areq.user_id

\* both users have a pending approval and a decision on one of the two
\* orders has found its user
C30_Witness ==
    /\ DOMAIN pending_approvals = {1, 2}
    /\ apc = "update"
    /\ areq.user_id = 2

\* the characters of [0-9a-fA-F-]
HexChars ==
    {"0", "1", "2", "3", "4", "5", "6", "7", "8", "9", "-",
     "a", "b", "c", "d", "e", "f", "A", "B", "C", "D", "E", "F"}

\* the validation rule on a stored udid
RuleHolds(t) ==
    /\ Len(t) >= 20 /\ Len(t) <= 50
    /\ \A i \in DOMAIN t : t[i] \in HexChars

C32_UdidTextResetsSession ==
    /\ [][\A u \in Users, t \in ValidTexts :
            (upc = "idle" /\ apc' = apc /\ areq' = areq
               /\ handle_other_messages(u, t))
              => (/\ u \in DOMAIN user_data'
                  /\ DOMAIN user_data'[u] = {"udid"}
                  /\ user_data'[u].udid = TrimmedOf[t]
                  /\ OthersSame(user_data, user_data', u)
                  /\ upc' = "idle"
                  /\ UNCHANGED <<pending_approvals, completed_orders, orders,
                                 next_id, alerts, followups>>)]_vars
    /\ [][(UploadBegins
              /\ ureq'.user_id \in DOMAIN user_data
              /\ DOMAIN user_data[ureq'.user_id] = {"udid"})
            => (upc' = "reply_refused" /\ Untouched)]_vars

\* the upload of a user is refused whose session holds only a udid while
\* the user has a pending approval and a completed order: the text came
\* after the plan was selected and the proof uploaded
C32_Witness ==
    /\ upc = "reply_refused"
    /\ ureq.user_id \in DOMAIN user_data
    /\ DOMAIN user_data[ureq.user_id] = {"udid"}
    /\ ureq.user_id \in DOMAIN pending_approvals
    /\ ureq.user_id \in DOMAIN completed_orders

====
